---- MODULE Spec2Model ----
(***************************************************************************)
(* GeneticAlgorithms toolkit: the generational solver loop `solve`         *)
(* (genetic solver header) and the cross-over functors (crossovers.h).      *)
(*                                                                         *)
(* Two families of specifications:                                         *)
(*   Spec / SpecDet : runs of solve(), one program step per action;        *)
(*   SpecCross      : calls of the three cross-over functors.              *)
(***************************************************************************)
EXTENDS Integers, Sequences, FiniteSets, TLC

\* ------------------------------------------------------------------ bounds
GenLen == 1      \* genotype length N used by the runs of solve
MaxPop == 2      \* largest population_size explored
MaxIter == 2     \* largest num_iterations explored
MaxN == 3        \* largest genotype length given to the cross-over functors
ProbScale == 2   \* reals of [0,1] are the fractions k / ProbScale
MaxCalls == 1    \* calls made on one cross-over functor

VARIABLES
  \* ---- solve(): parameters
  runs,             \* the independent runs of solve being observed
  num_iterations,
  population_size,
  init_func,        \* the Initializer's seeded stream: call j returns init_func[j]
  rank_func,        \* the RankFunctor the populations are bound to
  \* ---- solve(): locals, one per run
  pc,
  i,
  current,
  next,
  best,
  couples,          \* what remains of the range the for loop of line 105 walks
  result,
  \* ---- solve(): history of the run (observers, read by no action guard)
  initCalls,        \* calls of init_func
  selectReq,        \* the counts select_func was asked for, in order
  crossCalls,       \* calls of cross_over_func
  mutateCalls,      \* calls of mutate_func
  elitePushes,      \* executions of line 114
  topSizes,         \* size of the population at each call of top()
  maxSeen,          \* highest rank among all that have been maxSeen of `current`
  bestSeq,          \* best after seeding and after each generation
  \* ---- cross-over functors
  N,                \* genotype length the functor is constructed with
  a,
  b,
  prob,             \* CrossOverOnProbWrapper::_prob, as a multiple of 1/ProbScale
  wrapped,          \* CrossOverOnProbWrapper::_crossover
  op,               \* the functor called last
  dest,             \* the Chromosome it returned
  pos,              \* RandomSplitCrossOver: _int_dist(_rng)
  coin,             \* RandomSplitCrossOver: _binary_dist(_rng)
  coins,            \* RandomMixCrossOver: the draws of _int_dist(_rng), by position
  draw,             \* CrossOverOnProbWrapper: _real_dist(_rng), times ProbScale
  pick,             \* CrossOverOnProbWrapper: _binary_dist(_rng)
  delegated,        \* whether the last wrapper call invoked _crossover
  calls,            \* calls made so far
  wrappedCalls,     \* calls of _crossover made by the wrapper so far
  given             \* the parents as the caller passed them

solveVars == <<runs, num_iterations, population_size, init_func, rank_func,
               pc, i, current, next, best, couples, result,
               initCalls, selectReq, crossCalls, mutateCalls, elitePushes,
               topSizes, maxSeen, bestSeq>>
crossVars == <<N, a, b, prob, wrapped, op, dest, pos, coin, coins, draw, pick,
               delegated, calls, wrappedCalls, given>>
vars == <<solveVars, crossVars>>

\* --------------------------------------------------------------- genotypes
\* A Chromosome of n bits, indexed from 0 as in the source.
Bit == {0, 1}
Chromosomes(n) == [0..(n-1) -> Bit]
Genotypes == Chromosomes(GenLen)

\* ------------------------------------------------------------------ ranks
RECURSIVE Ones(_, _)
Ones(g, n) == IF n = 0 THEN 0 ELSE g[n-1] + Ones(g, n-1)

RECURSIVE Decode(_, _)
Decode(g, n) == IF n = 0 THEN 0 ELSE g[n-1] + 2 * Decode(g, n-1)

RECURSIVE Pow2(_)
Pow2(n) == IF n = 0 THEN 1 ELSE 2 * Pow2(n-1)

\* The rank functors a caller binds, all deterministic: the decoded value, the
\* number of zero bits (a minimisation by sign change) and a constant (all ties).
RankFunctors == {"decode", "zeros", "flat"}
Rank(rf, g) ==
  CASE rf = "decode" -> Decode(g, GenLen)
    [] rf = "zeros"  -> GenLen - Ones(g, GenLen)
    [] OTHER         -> 0
Ranks == 0..(Pow2(GenLen) - 1)

\* A Hypothesis is std::pair<Chromosome, T>.
Hypothesis(g, r) == [first |-> g, second |-> r]
Hypotheses == [first : Genotypes, second : Ranks]
NoHypothesis == [first |-> <<>>, second |-> -1]

\* ------------------------------------------------------------- Population
\* A Population is the sequence of its hypotheses, in insertion order.
PopPush(p, g, rf) == Append(p, Hypothesis(g, Rank(rf, g)))

PopReset(p) == <<>>

RECURSIVE PopInit(_, _, _, _, _)
PopInit(p, stream, k, n, rf) ==
  IF k > n THEN p ELSE PopInit(PopPush(p, stream[k], rf), stream, k + 1, n, rf)

\* Index of the best member: a later member replaces it only when strictly better.
RECURSIVE TopIndex(_, _, _)
TopIndex(p, k, bestk) ==
  IF k > Len(p) THEN bestk
  ELSE TopIndex(p, k + 1, IF p[bestk].second < p[k].second THEN k ELSE bestk)

PopTop(p) == p[TopIndex(p, 1, 1)]

PopGenotypes(p) == {p[k].first : k \in 1..Len(p)}

Max(x, y) == IF x < y THEN y ELSE x

\* Highest rank among the maxSeen of p, or floor when it has none.
RECURSIVE PopMaxRank(_, _, _)
PopMaxRank(p, k, floor) ==
  IF k > Len(p) THEN floor ELSE PopMaxRank(p, k + 1, Max(floor, p[k].second))

\* Population::select hands the maxSeen to the selection functor, which returns
\* exactly `count` couples of maxSeen' genotypes.
PopSelect(p, count) ==
  [1..count -> PopGenotypes(p) \X PopGenotypes(p)]

\* ------------------------------------------------------------------ solve
\* line 105: the number of couples asked for.
SelectCount(n) == n - 1

\* A loop that runs once too often.
LoopCondInclusive(k, n) == k <= n

\* line 104: the loop condition.
LoopCond(k, n) == k < n

\* The comparison of line 110 turned round.
BestUpdateReversed(b0, top) == IF top.second < b0.second THEN top ELSE b0

\* lines 110-112: best is overwritten only on strict improvement.
BestUpdate(b0, top) == IF b0.second < top.second THEN top ELSE b0

\* lines 97-102: both populations are built, current is seeded and best recorded.
Seeding(r) ==
  /\ pc[r] = "init"
  /\ LET p == PopInit(<<>>, init_func, 1, population_size, rank_func)
     IN  /\ current' = [current EXCEPT ![r] = p]
         /\ best' = [best EXCEPT ![r] = PopTop(p)]
         /\ topSizes' = [topSizes EXCEPT ![r] = Append(@, Len(p))]
         /\ maxSeen' = [maxSeen EXCEPT ![r] = PopMaxRank(p, 1, @)]
         /\ bestSeq' = [bestSeq EXCEPT ![r] = <<PopTop(p)>>]
  /\ initCalls' = [initCalls EXCEPT ![r] = population_size]
  /\ pc' = [pc EXCEPT ![r] = "loop"]
  /\ UNCHANGED <<runs, num_iterations, population_size, init_func, rank_func,
                 i, next, couples, result, selectReq, crossCalls, mutateCalls,
                 elitePushes>>
  /\ UNCHANGED crossVars

\* lines 104-105: the loop is entered and current.select(...) evaluated.
Select(r) ==
  /\ pc[r] = "loop"
  /\ LoopCond(i[r], num_iterations)
  /\ \E cs \in PopSelect(current[r], SelectCount(population_size)) :
        couples' = [couples EXCEPT ![r] = cs]
  /\ selectReq' = [selectReq EXCEPT ![r] = Append(@, SelectCount(population_size))]
  /\ pc' = [pc EXCEPT ![r] = "breed"]
  /\ UNCHANGED <<runs, num_iterations, population_size, init_func, rank_func,
                 i, current, next, best, result, initCalls, crossCalls,
                 mutateCalls, elitePushes, topSizes, maxSeen, bestSeq>>
  /\ UNCHANGED crossVars

\* line 106: one couple is crossed, the child mutated and pushed into next.
\* mutate_func may return any genotype of the same length.
Breed(r) ==
  /\ pc[r] = "breed"
  /\ couples[r] # <<>>
  /\ \E child \in Genotypes :
        next' = [next EXCEPT ![r] = PopPush(@, child, rank_func)]
  /\ couples' = [couples EXCEPT ![r] = Tail(@)]
  /\ crossCalls' = [crossCalls EXCEPT ![r] = @ + 1]
  /\ mutateCalls' = [mutateCalls EXCEPT ![r] = @ + 1]
  /\ UNCHANGED <<runs, num_iterations, population_size, init_func, rank_func,
                 pc, i, current, best, result, initCalls, selectReq,
                 elitePushes, topSizes, maxSeen, bestSeq>>
  /\ UNCHANGED crossVars

\* The swap of line 108 without the reset of line 109.
SwapNoReset(r) ==
  /\ pc[r] = "breed"
  /\ couples[r] = <<>>
  /\ current' = [current EXCEPT ![r] = next[r]]
  /\ next' = [next EXCEPT ![r] = current[r]]
  /\ maxSeen' = [maxSeen EXCEPT ![r] = PopMaxRank(next[r], 1, @)]
  /\ pc' = [pc EXCEPT ![r] = "top"]
  /\ UNCHANGED <<runs, num_iterations, population_size, init_func, rank_func,
                 i, best, couples, result, initCalls, selectReq, crossCalls,
                 mutateCalls, elitePushes, topSizes, bestSeq>>
  /\ UNCHANGED crossVars

\* lines 108-109: std::swap(current, next); next.reset().
SwapReset(r) ==
  /\ pc[r] = "breed"
  /\ couples[r] = <<>>
  /\ current' = [current EXCEPT ![r] = next[r]]
  /\ next' = [next EXCEPT ![r] = PopReset(current[r])]
  /\ maxSeen' = [maxSeen EXCEPT ![r] = PopMaxRank(next[r], 1, @)]
  /\ pc' = [pc EXCEPT ![r] = "top"]
  /\ UNCHANGED <<runs, num_iterations, population_size, init_func, rank_func,
                 i, best, couples, result, initCalls, selectReq, crossCalls,
                 mutateCalls, elitePushes, topSizes, bestSeq>>
  /\ UNCHANGED crossVars

\* lines 110-112 on a population that holds the children of this generation.
UpdateBest(r) ==
  /\ pc[r] = "top"
  /\ current[r] # <<>>
  /\ best' = [best EXCEPT ![r] = BestUpdate(@, PopTop(current[r]))]
  /\ topSizes' = [topSizes EXCEPT ![r] = Append(@, Len(current[r]))]
  /\ pc' = [pc EXCEPT ![r] = "push"]
  /\ UNCHANGED <<runs, num_iterations, population_size, init_func, rank_func,
                 i, current, next, couples, result, initCalls, selectReq,
                 crossCalls, mutateCalls, elitePushes, maxSeen, bestSeq>>
  /\ UNCHANGED crossVars

\* lines 110-112 on an empty population: top() has no member to return, which is
\* undefined behaviour. The build either faults or reads whatever hypothesis lies
\* where a member would be.
TopOnEmpty(r) ==
  /\ pc[r] = "top"
  /\ current[r] = <<>>
  /\ topSizes' = [topSizes EXCEPT ![r] = Append(@, 0)]
  /\ \/ /\ pc' = [pc EXCEPT ![r] = "fault"]
        /\ best' = best
     \/ \E h \in Hypotheses :
          /\ best' = [best EXCEPT ![r] = BestUpdate(@, h)]
          /\ pc' = [pc EXCEPT ![r] = "push"]
  /\ UNCHANGED <<runs, num_iterations, population_size, init_func, rank_func,
                 i, current, next, couples, result, initCalls, selectReq,
                 crossCalls, mutateCalls, elitePushes, maxSeen, bestSeq>>
  /\ UNCHANGED crossVars

\* line 114 and the ++i of line 104: the best one passes directly.
Elitism(r) ==
  /\ pc[r] = "push"
  /\ current' = [current EXCEPT ![r] = PopPush(@, best[r].first, rank_func)]
  /\ maxSeen' = [maxSeen EXCEPT ![r] = Max(@, Rank(rank_func, best[r].first))]
  /\ elitePushes' = [elitePushes EXCEPT ![r] = @ + 1]
  /\ bestSeq' = [bestSeq EXCEPT ![r] = Append(@, best[r])]
  /\ i' = [i EXCEPT ![r] = @ + 1]
  /\ pc' = [pc EXCEPT ![r] = "loop"]
  /\ UNCHANGED <<runs, num_iterations, population_size, init_func, rank_func,
                 next, best, couples, result, initCalls, selectReq, crossCalls,
                 mutateCalls, topSizes>>
  /\ UNCHANGED crossVars

\* line 117: the loop is over, best.first is returned.
Return(r) ==
  /\ pc[r] = "loop"
  /\ ~LoopCond(i[r], num_iterations)
  /\ result' = [result EXCEPT ![r] = best[r].first]
  /\ pc' = [pc EXCEPT ![r] = "done"]
  /\ UNCHANGED <<runs, num_iterations, population_size, init_func, rank_func,
                 i, current, next, best, couples, initCalls, selectReq,
                 crossCalls, mutateCalls, elitePushes, topSizes, maxSeen, bestSeq>>
  /\ UNCHANGED crossVars

\* The cross-over functors at rest, while solve is observed.
CrossIdle ==
  /\ N = 0 /\ a = <<>> /\ b = <<>> /\ prob = 0 /\ wrapped = "none"
  /\ op = "none" /\ dest = <<>> /\ pos = 0 /\ coin = 0 /\ coins = <<>>
  /\ draw = 0 /\ pick = 0 /\ delegated = FALSE /\ calls = 0 /\ wrappedCalls = 0
  /\ given = <<>>

\* The locals of solve on entry, for the runs rs.
SolveEntry(rs) ==
  /\ runs = rs
  /\ pc = [r \in rs |-> "init"]
  /\ i = [r \in rs |-> 0]
  /\ current = [r \in rs |-> <<>>]
  /\ next = [r \in rs |-> <<>>]
  /\ best = [r \in rs |-> NoHypothesis]
  /\ couples = [r \in rs |-> <<>>]
  /\ result = [r \in rs |-> <<>>]
  /\ initCalls = [r \in rs |-> 0]
  /\ selectReq = [r \in rs |-> <<>>]
  /\ crossCalls = [r \in rs |-> 0]
  /\ mutateCalls = [r \in rs |-> 0]
  /\ elitePushes = [r \in rs |-> 0]
  /\ topSizes = [r \in rs |-> <<>>]
  /\ maxSeen = [r \in rs |-> -1]
  /\ bestSeq = [r \in rs |-> <<>>]

\* One call of solve with any admissible arguments (population_size >= 1).
Init ==
  /\ num_iterations \in 0..MaxIter
  /\ population_size \in 1..MaxPop
  /\ init_func \in [1..population_size -> Genotypes]
  /\ rank_func \in RankFunctors
  /\ SolveEntry({1})
  /\ CrossIdle

Next ==
  \/ \E r \in runs : Seeding(r)
  \/ \E r \in runs : Select(r)
  \/ \E r \in runs : Breed(r)
  \/ \E r \in runs : SwapReset(r)
  \/ \E r \in runs : UpdateBest(r)
  \/ \E r \in runs : TopOnEmpty(r)
  \/ \E r \in runs : Elitism(r)
  \/ \E r \in runs : Return(r)

Spec == Init /\ [][Next]_vars

\* Two runs of solve constructed identically: the same arguments, and functors
\* seeded alike, so that the Initializer hands both the same stream.
InitDet ==
  /\ num_iterations = 5
  /\ population_size = 1
  /\ init_func \in [1..population_size -> Genotypes]
  /\ rank_func \in RankFunctors
  /\ SolveEntry({1, 2})
  /\ CrossIdle

\* With population_size = 1 no couple is ever walked and no generation has a child.
NextDet ==
  \/ \E r \in runs : Seeding(r)
  \/ \E r \in runs : Select(r)
  \/ \E r \in runs : SwapReset(r)
  \/ \E r \in runs : TopOnEmpty(r)
  \/ \E r \in runs : Elitism(r)
  \/ \E r \in runs : Return(r)

SpecDet == InitDet /\ [][NextDet]_vars

\* ------------------------------------------------------ cross-over functors
Size(c) == Cardinality(DOMAIN c)

\* bitset dest(n): n bits, all zero.
ZeroBits(n) == [k \in 0..(n-1) |-> 0]

\* for (size_t i=k; i<hi; ++i) d[i] = src[i];
RECURSIVE CopyBits(_, _, _, _)
CopyBits(d, src, k, hi) ==
  IF k < hi THEN CopyBits([d EXCEPT ![k] = src[k]], src, k + 1, hi) ELSE d

\* The else branch of lines 69-76 copied from the then branch unchanged.
RandomSplitNoSwap(x, y, p, c) ==
  CopyBits(CopyBits(ZeroBits(Size(x)), x, 0, p), y, p, Size(y))

\* RandomSplitCrossOver::operator(), with p and c the two draws.
RandomSplitCrossOver(x, y, p, c) ==
  IF c = 0
    THEN CopyBits(CopyBits(ZeroBits(Size(x)), x, 0, p), y, p, Size(y))
    ELSE CopyBits(CopyBits(ZeroBits(Size(x)), y, 0, p), x, p, Size(x))

\* The loop of lines 105-113 without its else branch.
RECURSIVE MixBitsNoElse(_, _, _, _, _)
MixBitsNoElse(d, x, y, cs, k) ==
  IF k < Size(x)
    THEN MixBitsNoElse(IF cs[k] = 0 THEN [d EXCEPT ![k] = x[k]] ELSE d, x, y, cs, k + 1)
    ELSE d

\* The loop of RandomMixCrossOver::operator(), from position k on.
RECURSIVE MixBits(_, _, _, _, _)
MixBits(d, x, y, cs, k) ==
  IF k < Size(x)
    THEN MixBits([d EXCEPT ![k] = IF cs[k] = 0 THEN x[k] ELSE y[k]], x, y, cs, k + 1)
    ELSE d

\* RandomMixCrossOver::operator(), with cs[i] the coin flipped for position i.
RandomMixCrossOver(x, y, cs) == MixBits(ZeroBits(Size(x)), x, y, cs, 0)

\* The test of line 142 with <= for <.
DelegatesInclusive(d, p) == d <= p

\* CrossOverOnProbWrapper: the test of line 142, _real_dist(_rng) < _prob.
Delegates(d, p) == d < p

\* A call of functor f on the parents: the draws it makes (locals of the call,
\* idle for the draws it does not make) and the child it returns.
WrappedCall(f) ==
  \/ /\ f = "split"
     /\ \E p \in 0..(N-1), c \in Bit :
          /\ pos' = p /\ coin' = c
          /\ dest' = RandomSplitCrossOver(a, b, p, c)
     /\ coins' = <<>>
  \/ /\ f = "mix"
     /\ \E cs \in [0..(N-1) -> Bit] :
          /\ coins' = cs
          /\ dest' = RandomMixCrossOver(a, b, cs)
     /\ pos' = 0 /\ coin' = 0

\* A call of RandomSplitCrossOver(N, seed) on the parents.
SplitCall ==
  /\ calls < MaxCalls
  /\ WrappedCall("split")
  /\ op' = "split"
  /\ calls' = calls + 1
  /\ draw' = 0 /\ pick' = 0 /\ delegated' = FALSE
  /\ UNCHANGED <<N, a, b, prob, wrapped, wrappedCalls, given>>
  /\ UNCHANGED solveVars

\* A call of RandomMixCrossOver(seed) on the parents.
MixCall ==
  /\ calls < MaxCalls
  /\ WrappedCall("mix")
  /\ op' = "mix"
  /\ calls' = calls + 1
  /\ draw' = 0 /\ pick' = 0 /\ delegated' = FALSE
  /\ UNCHANGED <<N, a, b, prob, wrapped, wrappedCalls, given>>
  /\ UNCHANGED solveVars

\* A call of CrossOverOnProbWrapper(seed, prob, crossover) on the parents.
\* _real_dist is uniform_real_distribution(0.0f, 1.0f): its draws lie in [0,1).
ProbCall ==
  /\ calls < MaxCalls
  /\ \E d \in 0..(ProbScale - 1) :
       /\ draw' = d
       /\ IF Delegates(d, prob)
            THEN /\ WrappedCall(wrapped)
                 /\ delegated' = TRUE
                 /\ wrappedCalls' = wrappedCalls + 1
                 /\ pick' = 0
            ELSE /\ \E k \in Bit :
                      /\ pick' = k
                      /\ dest' = IF k = 0 THEN a ELSE b
                 /\ delegated' = FALSE
                 /\ pos' = 0 /\ coin' = 0 /\ coins' = <<>>
                 /\ UNCHANGED wrappedCalls
  /\ op' = "prob"
  /\ calls' = calls + 1
  /\ UNCHANGED <<N, a, b, prob, wrapped, given>>
  /\ UNCHANGED solveVars

\* The functors as constructed, and two parents of the length they were built for.
InitCross ==
  /\ N \in 1..MaxN
  /\ a \in Chromosomes(N)
  /\ b \in Chromosomes(N)
  /\ given = <<a, b>>
  /\ prob \in 0..ProbScale
  /\ wrapped \in {"split", "mix"}
  /\ op = "none" /\ dest = <<>> /\ pos = 0 /\ coin = 0 /\ coins = <<>>
  /\ draw = 0 /\ pick = 0 /\ delegated = FALSE /\ calls = 0 /\ wrappedCalls = 0
  /\ num_iterations = 0
  /\ population_size = 1
  /\ init_func = <<>>
  /\ rank_func = "flat"
  /\ SolveEntry({})

NextCross == SplitCall \/ MixCall \/ ProbCall

SpecCross == InitCross /\ [][NextCross]_vars

\* ------------------------------------------------------------------ claims

\* C1. Size invariant: right after seeding and right after the elitism push that
\* ends each generation (the only places where pc = "loop"), and on return, the
\* current population holds exactly population_size hypotheses.
SizeInvariant ==
  \A r \in runs :
    pc[r] \in {"loop", "done"} => Len(current[r]) = population_size

\* A second generation has ended on a population of several members.
SizeInvariantWitness ==
  \E r \in runs :
    /\ pc[r] = "loop" /\ i[r] >= 2 /\ population_size >= 2
    /\ Len(current[r]) = population_size

\* C2. Monotonic elitism: the rank recorded in best after k generations is never
\* below the rank recorded after k-1 generations.
MonotonicElitism ==
  \A r \in runs :
    \A k \in 1..(Len(bestSeq[r]) - 1) :
      bestSeq[r][k + 1].second >= bestSeq[r][k].second

\* A generation improved best, and a later one bred only a lower-ranked child.
MonotonicElitismWitness ==
  \E r \in runs :
    /\ Len(bestSeq[r]) >= 3
    /\ bestSeq[r][2].second > bestSeq[r][1].second
    /\ pc[r] = "loop"
    /\ \E k \in 1..Len(current[r]) : current[r][k].second < best[r].second

\* C3. Degenerate population: with population_size = 1 selection is asked for 0
\* couples in every generation, cross-over and mutation are never invoked, and the
\* genotype returned is the top of the seeding phase.
DegeneratePopulation ==
  \A r \in runs :
    population_size = 1 =>
      /\ \A k \in 1..Len(selectReq[r]) : selectReq[r][k] = 0
      /\ crossCalls[r] = 0
      /\ mutateCalls[r] = 0
      /\ pc[r] = "done" => result[r] = init_func[1]

\* C4. Zero-iteration identity: solve(0, n, ...) calls the Initializer n times,
\* selects, crosses, mutates and pushes nothing, and returns the first genotype of
\* maximal rank among the n initialized.
ZeroIterationIdentity ==
  \A r \in runs :
    (pc[r] = "done" /\ num_iterations = 0) =>
      /\ initCalls[r] = population_size
      /\ selectReq[r] = <<>>
      /\ crossCalls[r] = 0
      /\ mutateCalls[r] = 0
      /\ elitePushes[r] = 0
      /\ \E k \in 1..population_size :
           /\ result[r] = init_func[k]
           /\ \A j \in 1..population_size :
                /\ Rank(rank_func, init_func[j]) <= Rank(rank_func, init_func[k])
                /\ j < k => Rank(rank_func, init_func[j]) < Rank(rank_func, init_func[k])

\* A zero-iteration run returned, from a population whose top was tied between
\* two different genotypes.
ZeroIterationWitness ==
  \E r \in runs :
    /\ pc[r] = "done" /\ num_iterations = 0 /\ population_size >= 2
    /\ init_func[1] # init_func[2]
    /\ Rank(rank_func, init_func[1]) = Rank(rank_func, init_func[2])
    /\ result[r] = init_func[1]

\* C5. Split cross-over reconstruction: the child has N bits; with coin 0 its bits
\* [0,pos) are A's and its bits [pos,N) are B's, with coin 1 the roles are swapped;
\* the parents are as they were passed.
SplitReconstruction ==
  op = "split" =>
    /\ DOMAIN dest = 0..(N-1)
    /\ \A k \in 0..(N-1) :
         dest[k] = IF coin = 0 THEN (IF k < pos THEN a[k] ELSE b[k])
                               ELSE (IF k < pos THEN b[k] ELSE a[k])
    /\ <<a, b>> = given

\* A split inside the genotype with the roles swapped, the child a true mixture.
SplitWitness ==
  /\ op = "split" /\ coin = 1 /\ 0 < pos /\ pos < N
  /\ dest # a /\ dest # b

\* C6. Probability-gated bounds: with prob = 1.0 every call of the wrapper returns
\* what the wrapped functor returns for the same parents; with prob = 0.0 every
\* call returns parent a or parent b and the wrapped functor is never invoked.
ProbGatedBounds ==
  op = "prob" =>
    /\ prob = ProbScale =>
         /\ delegated
         /\ wrapped = "split" => dest = RandomSplitCrossOver(given[1], given[2], pos, coin)
         /\ wrapped = "mix" => dest = RandomMixCrossOver(given[1], given[2], coins)
    /\ prob = 0 =>
         /\ ~delegated
         /\ dest \in {given[1], given[2]}
         /\ wrappedCalls = 0

\* prob = 1.0 and the largest draw below 1: the wrapped functor still runs, and
\* its child is neither parent.
ProbGatedWitness ==
  /\ op = "prob" /\ prob = ProbScale /\ draw = ProbScale - 1
  /\ delegated /\ dest # a /\ dest # b

\* C7. Mix cross-over membership: the child has N bits and each is the bit of A or
\* of B at that position; where A and B agree the child agrees with them.
MixMembership ==
  op = "mix" =>
    /\ DOMAIN dest = 0..(N-1)
    /\ \A k \in 0..(N-1) :
         /\ dest[k] \in {a[k], b[k]}
         /\ a[k] = b[k] => dest[k] = a[k]

\* A mix that took bits from both parents.
MixWitness ==
  /\ op = "mix" /\ dest # a /\ dest # b
  /\ \E k \in 0..(N-1) : a[k] = 1 /\ b[k] = 1

\* C8. Determinism scenario: two runs built identically with population_size = 1
\* and num_iterations = 5 record the same best generation by generation and
\* return the same genotype.
Determinism ==
  /\ \A k \in 1..Len(bestSeq[1]) :
       k <= Len(bestSeq[2]) => bestSeq[1][k] = bestSeq[2][k]
  /\ (pc[1] = "done" /\ pc[2] = "done") => result[1] = result[2]

\* C9. top() precondition: every call solve makes to top() is made on a
\* population that holds at least one hypothesis.
TopNeverOnEmpty ==
  \A r \in runs :
    \A k \in 1..Len(topSizes[r]) : topSizes[r][k] >= 1

\* C10. Global-best tracking: after seeding and after every generation, best.rank
\* is the highest rank of any hypothesis that has been a member of the current
\* population, best.genotype is a member of the current population, and the
\* genotype returned ranks no lower than any genotype scored.
GlobalBestTracking ==
  \A r \in runs :
    pc[r] \in {"loop", "done"} =>
      /\ best[r].second = maxSeen[r]
      /\ best[r].first \in PopGenotypes(current[r])
      /\ pc[r] = "done" => Rank(rank_func, result[r]) >= maxSeen[r]

====
